---- MODULE Spec2Model ----
(***************************************************************************)
(* Model of editor/src/render/intersection.rs: construction of a           *)
(* DrawIntersection (center, crosswalks, sidewalk corners), its draw(),    *)
(* draw_signal_cycle() and the step-by-step run of draw_signal_diagram().  *)
(*                                                                         *)
(* Numbers.  The source computes in f64.  The model computes the same      *)
(* expressions exactly: screen quantities are integers (pixels), map       *)
(* quantities handed to g.fork are fixed-point integers counting 1/Scale   *)
(* of a map unit, so that x1_screen / zoom is exact.  Averages are kept    *)
(* as unreduced fractions <<numerator, denominator>>.  Rounding of f64 is  *)
(* not modelled.                                                           *)
(***************************************************************************)
EXTENDS Integers, Sequences, FiniteSets, TLC

VARIABLES
    map,        \* ctx.map: the intersection, its lanes, turns and signal
    draw_map,   \* ctx.draw_map: <<>> before construction, else <<DrawIntersection>>
    g,          \* GfxCtx: [ctx |-> frame in effect, drawn |-> draw calls so far]
    pc,         \* position of the running draw call
    call,       \* the inputs of the running (or last) top-level call
    local,      \* the local variables of draw_signal_diagram
    pushes,     \* frames entered by fork / fork_screenspace in this call
    pops,       \* number of unfork calls in this call
    calls       \* draw_signal_cycle invocations of this call (the cycles)

vars == <<map, draw_map, g, pc, call, local, pushes, pops, calls>>

----------------------------------------------------------------------------
\* Bounds of the model

MaxCycles == 2

----------------------------------------------------------------------------
\* Program constants

padding == 5
zoom == 10
margin == 10
MIN_ZOOM_FOR_MARKINGS == 5

\* Fixed-point resolution of map coordinates passed to g.fork
Scale == zoom

----------------------------------------------------------------------------
\* Small helpers

None == "None"

Max(a, b) == IF a >= b THEN a ELSE b

Min(a, b) == IF a <= b THEN a ELSE b

RECURSIVE SeqMax(_)
SeqMax(s) == IF Len(s) = 1 THEN s[1] ELSE Max(s[1], SeqMax(Tail(s)))

RECURSIVE SeqMin(_)
SeqMin(s) == IF Len(s) = 1 THEN s[1] ELSE Min(s[1], SeqMin(Tail(s)))

RECURSIVE SeqSum(_)
SeqSum(s) == IF s = <<>> THEN 0 ELSE s[1] + SeqSum(Tail(s))

Xs(pts) == [k \in 1..Len(pts) |-> pts[k][1]]

Ys(pts) == [k \in 1..Len(pts) |-> pts[k][2]]

\* Order of TurnID (src, then dst), the iteration order of a BTreeSet<TurnID>
TurnLess(a, b) == a[1] < b[1] \/ (a[1] = b[1] /\ a[2] < b[2])

RECURSIVE SortedTurns(_)
SortedTurns(S) ==
    IF S = {} THEN <<>>
    ELSE LET m == CHOOSE x \in S : \A y \in S \ {x} : TurnLess(x, y)
         IN  <<m>> \o SortedTurns(S \ {m})

----------------------------------------------------------------------------
\* The topology source (map_model): one intersection, its lanes and turns

ThisI == "i1"

OtherI == "i2"

Lanes == 1..5

VehicleTurn == [id |-> <<1, 2>>, turn_type |-> "Straight"]

\* dst_i of every lane.  Lanes 1, 2 are driving lanes into and out of ThisI;
\* lanes 3 and 4 are the two sidewalks of one road (opposite directions),
\* lane 5 is the sidewalk of the adjacent road that meets lane 4 at a corner.
LaneDst(in3) ==
    [l \in Lanes |->
        CASE l = 1 -> ThisI
          [] l = 2 -> OtherI
          [] l = 3 -> IF in3 THEN ThisI ELSE OtherI
          [] l = 4 -> IF in3 THEN OtherI ELSE ThisI
          [] l = 5 -> IF in3 THEN ThisI ELSE OtherI]

\* get_turns_in_intersection: sidewalk turns come in pairs, one per direction
TurnList(hasSidewalks) ==
    <<VehicleTurn>>
    \o (IF hasSidewalks
        THEN << [id |-> <<3, 4>>, turn_type |-> "Crosswalk"],
                [id |-> <<4, 3>>, turn_type |-> "Crosswalk"],
                [id |-> <<4, 5>>, turn_type |-> "SharedSidewalkCorner"],
                [id |-> <<5, 4>>, turn_type |-> "SharedSidewalkCorner"] >>
        ELSE <<>>)

TurnIds(turns) == {turns[k].id : k \in 1..Len(turns)}

\* map.get_t
get_t(m, t) == CHOOSE turn \in {m.turns[k] : k \in 1..Len(m.turns)} : turn.id = t

\* map.get_l
get_l(m, l) == [dst_i |-> m.lanes[l]]

\* Turn::between_sidewalks
between_sidewalks(turn) == turn.turn_type \in {"Crosswalk", "SharedSidewalkCorner"}

\* Closed footprint rings: the first point is repeated at the end
OpenRings ==
    { << <<1, 1>>, <<3, 1>>, <<3, 4>>, <<1, 4>> >>,
      << <<2, 0>>, <<5, 3>>, <<0, 3>> >> }

Polygons == {r \o <<r[1]>> : r \in OpenRings}

\* The cycles a signal of this intersection may hold
CycleChoices(turns) ==
    LET cross == {t \in TurnIds(turns) : get_t([turns |-> turns], t).turn_type = "Crosswalk"}
    IN  { [parent |-> ThisI, duration |-> 10,
           priority_turns |-> {VehicleTurn.id}, yield_turns |-> {}],
          [parent |-> ThisI, duration |-> 15,
           priority_turns |-> cross, yield_turns |-> {VehicleTurn.id}] }

CycleLists(turns) ==
    UNION {[1..n -> CycleChoices(turns)] : n \in 0..MaxCycles}

IntersectionTypes == {"Border", "StopSign", "TrafficSignal"}

Maps ==
    { [id |-> ThisI, polygon |-> p, intersection_type |-> ty,
       lanes |-> LaneDst(in3), turns |-> TurnList(sw), cycles |-> cs] :
        p \in Polygons, ty \in IntersectionTypes, in3 \in BOOLEAN, sw \in BOOLEAN,
        cs \in UNION {CycleLists(TurnList(k)) : k \in BOOLEAN} }

WellFormed(m) ==
    /\ m.cycles \in CycleLists(m.turns)
    /\ (m.intersection_type # "TrafficSignal" => m.cycles = <<>>)

----------------------------------------------------------------------------
\* Geometry (geom crate)

\* Pt2D::center: the average of the points, as fractions
Pt2D_center(pts) ==
    [x |-> <<SeqSum(Xs(pts)), Len(pts)>>, y |-> <<SeqSum(Ys(pts)), Len(pts)>>]

\* Vec::pop on a non-empty vector
Pop(s) == SubSeq(s, 1, Len(s) - 1)

----------------------------------------------------------------------------
\* Construction

\* DrawCrosswalk::new
DrawCrosswalk_new(turn) == [id1 |-> turn.id]

\* Variant: every crosswalk turn yields an artifact (no direction filter)
calculate_crosswalks_NoDedup(i, m) ==
    LET keep(turn) == turn.turn_type = "Crosswalk"
        kept == SelectSeq(m.turns, keep)
    IN  [k \in 1..Len(kept) |-> DrawCrosswalk_new(kept[k])]

calculate_crosswalks(i, m) ==
    LET keep(turn) == turn.turn_type = "Crosswalk" /\ get_l(m, turn.id[1]).dst_i = i
        kept == SelectSeq(m.turns, keep)
    IN  [k \in 1..Len(kept) |-> DrawCrosswalk_new(kept[k])]

\* The corner polygon is kept as the pair of lanes whose end lines build it
calculate_corners(i, m) ==
    LET keep(turn) == turn.turn_type = "SharedSidewalkCorner"
                      /\ ~(get_l(m, turn.id[1]).dst_i # i)
        kept == SelectSeq(m.turns, keep)
    IN  [k \in 1..Len(kept) |-> [l1 |-> kept[k].id[1], l2 |-> kept[k].id[2]]]

\* Variant: the closing point is not popped before averaging
DrawIntersection_new_NoPop(inter, m) ==
    LET pts == inter.polygon
        center == Pt2D_center(pts)
    IN  [center |-> center,
         id |-> inter.id,
         polygon |-> inter.polygon,
         crosswalks |-> calculate_crosswalks(inter.id, m),
         sidewalk_corners |-> calculate_corners(inter.id, m),
         intersection_type |-> inter.intersection_type]

DrawIntersection_new(inter, m) ==
    LET pts == Pop(inter.polygon)
        center == Pt2D_center(pts)
    IN  [center |-> center,
         id |-> inter.id,
         polygon |-> inter.polygon,
         crosswalks |-> calculate_crosswalks(inter.id, m),
         sidewalk_corners |-> calculate_corners(inter.id, m),
         intersection_type |-> inter.intersection_type]

\* draw_map.get_i
get_i(dm, i) == CHOOSE d \in {dm[k] : k \in 1..Len(dm)} : d.id = i

----------------------------------------------------------------------------
\* Option<T>: <<>> is None, <<v>> is Some(v)

Some(v) == <<v>>

is_some(o) == o # <<>>

unwrap(o) == o[1]

----------------------------------------------------------------------------
\* The rendering surface (ezgui GfxCtx, Canvas, Text) and the color scheme

\* A coordinate frame: map point p is shown at (p - top_left) * zoom.
\* top_left counts 1/Scale of a map unit.
Frame(top_left, z) == [top_left |-> top_left, zoom |-> z]

NoFrame == Frame(<<0, 0>>, 0)

\* The frame of the map canvas at camera zoom cam_zoom
CanvasFrame(cam_zoom) == Frame(<<0, 0>>, cam_zoom)

\* Where a frame shows the map point pt (whole map units): screen pixels
MapToScreen(frame, pt) ==
    << ((pt[1] * Scale - frame.top_left[1]) * frame.zoom) \div Scale,
       ((pt[2] * Scale - frame.top_left[2]) * frame.zoom) \div Scale >>

\* GfxCtx::fork: the new frame replaces the one in effect
fork(gfx, top_left, z) == [gfx EXCEPT !.ctx = Frame(top_left, z)]

\* GfxCtx::fork_screenspace
fork_screenspace(gfx) == fork(gfx, <<0, 0>>, 1)

\* GfxCtx::unfork: the frame handed back becomes the frame in effect
unfork(gfx, old_ctx) == [gfx EXCEPT !.ctx = old_ctx]

\* ColorScheme::get_def / get: a color is named by its key in the scheme
get_def(name) == name

\* One draw call, as recorded on the surface, with the frame it was made in
Cmd(gfx, op, color, ref, rect, txt) ==
    [op |-> op, color |-> color, ref |-> ref, rect |-> rect, txt |-> txt,
     ctx |-> gfx.ctx]

Emit(gfx, op, color, ref, rect, txt) ==
    [gfx EXCEPT !.drawn = Append(@, Cmd(gfx, op, color, ref, rect, txt))]

\* g.draw_polygon of the footprint, of a corner, of a rectangle
draw_footprint(gfx, color) == Emit(gfx, "footprint", color, <<0, 0>>, <<0, 0, 0, 0>>, <<>>)

draw_corner(gfx, color, corner) ==
    Emit(gfx, "corner", color, <<corner.l1, corner.l2>>, <<0, 0, 0, 0>>, <<>>)

\* g.draw_polygon(color, Polygon::rectangle_topleft(top_left, width, height))
draw_rectangle(gfx, color, x, y, w, h) ==
    Emit(gfx, "rectangle", color, <<0, 0>>, <<x, y, w, h>>, <<>>)

\* DrawCrosswalk::draw
DrawCrosswalk_draw(gfx, crosswalk, color) ==
    Emit(gfx, "crosswalk", color, crosswalk.id1, <<0, 0, 0, 0>>, <<>>)

\* DrawTurn::draw_full / draw_dashed
draw_full(gfx, turn, color) == Emit(gfx, "turn_full", color, turn.id, <<0, 0, 0, 0>>, <<>>)

draw_dashed(gfx, turn, color) == Emit(gfx, "turn_dashed", color, turn.id, <<0, 0, 0, 0>>, <<>>)

\* Canvas::draw_text_at (map point) / draw_text_at_screenspace_topleft
draw_text_at(gfx, txt, pt) == Emit(gfx, "text_at", "text", <<0, 0>>, <<pt[1], pt[2], 0, 0>>, txt)

draw_text_at_screenspace_topleft(gfx, txt, x, y) ==
    Emit(gfx, "text_screenspace", "text", <<0, 0>>, <<x, y, 0, 0>>, txt)

\* Text: a line of spans, each a format string with its arguments and a color
Span(fmt, args, fg) == [fmt |-> fmt, args |-> args, fg |-> fg]

Text_from_line(fmt, args) == <<Span(fmt, args, None)>>

Text_append(txt, fmt, fg) == Append(txt, Span(fmt, <<>>, fg))

GlyphWidth == 8

RECURSIVE Digits(_)
Digits(n) == IF n < 0 THEN 1 + Digits(0 - n) ELSE IF n < 10 THEN 1 ELSE 1 + Digits(n \div 10)

\* Number of characters a format string prints besides its arguments
FmtLen(fmt) ==
    CASE fmt = "{}" -> 0
      [] fmt = "Cycle {}: " -> 8
      [] fmt = "Cycle {}: {}" -> 8
      [] fmt = "Cycle {}: {:.01}s / {}" -> 14
      [] fmt = "OVERTIME" -> 8

SpanChars(sp) == FmtLen(sp.fmt) + SeqSum([k \in 1..Len(sp.args) |-> Digits(sp.args[k])])

\* Canvas::text_dims(l).0
text_width(txt) == GlyphWidth * SeqSum([k \in 1..Len(txt) |-> SpanChars(txt[k])])

----------------------------------------------------------------------------
\* Cycle (map_model)

\* Cycle::get_priority
get_priority(cycle, t) ==
    IF t \in cycle.priority_turns THEN "Priority"
    ELSE IF t \in cycle.yield_turns THEN "Yield"
    ELSE "Stop"

----------------------------------------------------------------------------
\* draw_signal_cycle: the surface after the three loops

\* Variant: a crosswalk is drawn for any status but Stop
RECURSIVE DrawCrosswalksOf_NotStop(_, _, _)
DrawCrosswalksOf_NotStop(gfx, cycle, crosswalks) ==
    IF crosswalks = <<>> THEN gfx
    ELSE LET crosswalk == Head(crosswalks)
             g1 == IF get_priority(cycle, crosswalk.id1) # "Stop"
                   THEN DrawCrosswalk_draw(gfx, crosswalk, get_def("crosswalk"))
                   ELSE gfx
         IN  DrawCrosswalksOf_NotStop(g1, cycle, Tail(crosswalks))

RECURSIVE DrawCrosswalksOf(_, _, _)
DrawCrosswalksOf(gfx, cycle, crosswalks) ==
    IF crosswalks = <<>> THEN gfx
    ELSE LET crosswalk == Head(crosswalks)
             g1 == IF get_priority(cycle, crosswalk.id1) = "Priority"
                   THEN DrawCrosswalk_draw(gfx, crosswalk, get_def("crosswalk"))
                   ELSE gfx
         IN  DrawCrosswalksOf(g1, cycle, Tail(crosswalks))

\* Variant: every priority turn is drawn, sidewalk turns included
RECURSIVE DrawPriorityTurns_NoFilter(_, _, _)
DrawPriorityTurns_NoFilter(gfx, m, ts) ==
    IF ts = <<>> THEN gfx
    ELSE LET turn == get_t(m, Head(ts))
             g1 == draw_full(gfx, turn,
                       get_def("turns protected by traffic signal right now"))
         IN  DrawPriorityTurns_NoFilter(g1, m, Tail(ts))

RECURSIVE DrawPriorityTurns(_, _, _)
DrawPriorityTurns(gfx, m, ts) ==
    IF ts = <<>> THEN gfx
    ELSE LET turn == get_t(m, Head(ts))
             g1 == IF ~between_sidewalks(turn)
                   THEN draw_full(gfx, turn,
                            get_def("turns protected by traffic signal right now"))
                   ELSE gfx
         IN  DrawPriorityTurns(g1, m, Tail(ts))

RECURSIVE DrawYieldTurns(_, _, _)
DrawYieldTurns(gfx, m, ts) ==
    IF ts = <<>> THEN gfx
    ELSE LET turn == get_t(m, Head(ts))
             g1 == IF ~between_sidewalks(turn)
                   THEN draw_dashed(gfx, turn,
                            get_def("turns allowed with yielding by traffic signal right now"))
                   ELSE gfx
         IN  DrawYieldTurns(g1, m, Tail(ts))

draw_signal_cycle(cycle, gfx, m, dm) ==
    LET g1 == DrawCrosswalksOf(gfx, cycle, get_i(dm, cycle.parent).crosswalks)
        g2 == DrawPriorityTurns(g1, m, SortedTurns(cycle.priority_turns))
    IN  DrawYieldTurns(g2, m, SortedTurns(cycle.yield_turns))

----------------------------------------------------------------------------
\* DrawIntersection::draw and draw_traffic_signal.  The result of a call is
\* [g |-> surface, calls |-> cycles handed to draw_signal_cycle,
\*  panicked |-> whether the call aborted]

Result(gfx, cs, panicked) == [g |-> gfx, calls |-> cs, panicked |-> panicked]

\* Variant: the current cycle is drawn in overtime as well
draw_traffic_signal_IgnoreOvertime(self, gfx, m, dm, in_overtime, cur) ==
    LET signal == m.cycles
    IN  IF signal = <<>>
        THEN Result(gfx, <<>>, TRUE)
        ELSE Result(draw_signal_cycle(signal[cur], gfx, m, dm), <<signal[cur]>>, FALSE)

\* signal.current_cycle_and_remaining_time needs a cycle to return
draw_traffic_signal(self, gfx, m, dm, in_overtime, cur) ==
    LET signal == m.cycles
    IN  IF ~in_overtime
        THEN IF signal = <<>>
             THEN Result(gfx, <<>>, TRUE)
             ELSE Result(draw_signal_cycle(signal[cur], gfx, m, dm), <<signal[cur]>>, FALSE)
        ELSE Result(gfx, <<>>, FALSE)

RECURSIVE DrawDebugLabels(_, _, _)
DrawDebugLabels(gfx, pts, idx) ==
    IF pts = <<>> THEN gfx
    ELSE DrawDebugLabels(
             draw_text_at(gfx, Text_from_line("{}", <<idx + 1>>), Head(pts)),
             Tail(pts), idx + 1)

RECURSIVE DrawCorners(_, _)
DrawCorners(gfx, corners) ==
    IF corners = <<>> THEN gfx
    ELSE DrawCorners(draw_corner(gfx, get_def("sidewalk corner"), Head(corners)),
                     Tail(corners))

RECURSIVE DrawCrosswalks(_, _)
DrawCrosswalks(gfx, crosswalks) ==
    IF crosswalks = <<>> THEN gfx
    ELSE DrawCrosswalks(DrawCrosswalk_draw(gfx, Head(crosswalks), get_def("crosswalk")),
                        Tail(crosswalks))

TypeColor(intersection_type) ==
    CASE intersection_type = "Border" -> get_def("border intersection")
      [] intersection_type = "StopSign" -> get_def("stop sign intersection")
      [] intersection_type = "TrafficSignal" -> get_def("traffic signal intersection")

\* opts = [color, debug_mode]; cam_zoom is ctx.canvas.cam_zoom; suppress is
\* ctx.hints.suppress_traffic_signal_details; in_overtime is
\* ctx.sim.is_in_overtime(self.id); cur is the cycle the signal is in
DrawIntersection_draw(self, gfx, opts, m, dm, cam_zoom, suppress, in_overtime, cur) ==
    LET color == IF is_some(opts.color) THEN unwrap(opts.color)
                 ELSE TypeColor(self.intersection_type)
        g1 == draw_footprint(gfx, color)
    IN  IF opts.debug_mode
        THEN Result(DrawDebugLabels(g1, Tail(m.polygon), 0), <<>>, FALSE)
        ELSE IF cam_zoom >= MIN_ZOOM_FOR_MARKINGS
        THEN LET g2 == DrawCorners(g1, self.sidewalk_corners)
             IN  IF self.intersection_type = "TrafficSignal"
                 THEN IF suppress # Some(self.id)
                      THEN draw_traffic_signal(self, g2, m, dm, in_overtime, cur)
                      ELSE Result(g2, <<>>, FALSE)
                 ELSE Result(DrawCrosswalks(g2, self.crosswalks), <<>>, FALSE)
        ELSE Result(g1, <<>>, FALSE)

----------------------------------------------------------------------------
\* draw_signal_diagram, its pieces

\* Bounds of the footprint: (top_left, intersection_width, intersection_height)
BoundsOf(pts) ==
    [top_left |-> <<SeqMin(Xs(pts)), SeqMin(Ys(pts))>>,
     intersection_width |-> SeqMax(Xs(pts)) - SeqMin(Xs(pts)),
     intersection_height |-> SeqMax(Ys(pts)) - SeqMin(Ys(pts))]

\* Variant: no time left counts as overtime
LabelFor_ZeroIsOvertime(idx, cycle, current_cycle, time_left) ==
    IF idx = current_cycle /\ is_some(time_left)
    THEN IF unwrap(time_left) <= 0
         THEN Text_append(Text_from_line("Cycle {}: ", <<idx + 1>>),
                          "OVERTIME", get_def("signal overtime"))
         ELSE Text_from_line("Cycle {}: {:.01}s / {}",
                  <<idx + 1, cycle.duration - unwrap(time_left), cycle.duration>>)
    ELSE Text_from_line("Cycle {}: {}", <<idx + 1, cycle.duration>>)

\* The label of row idx (0-based), lines 190-214
LabelFor(idx, cycle, current_cycle, time_left) ==
    IF idx = current_cycle /\ is_some(time_left)
    THEN IF unwrap(time_left) < 0
         THEN Text_append(Text_from_line("Cycle {}: ", <<idx + 1>>),
                          "OVERTIME", get_def("signal overtime"))
         ELSE Text_from_line("Cycle {}: {:.01}s / {}",
                  <<idx + 1, cycle.duration - unwrap(time_left), cycle.duration>>)
    ELSE Text_from_line("Cycle {}: {}", <<idx + 1, cycle.duration>>)

\* Variant: the row's frame leaves no padding above the miniature
RowForkPoint_NoTopPadding(l, y1_screen, idx) ==
    << l.top_left[1] * Scale - (l.x1_screen * Scale) \div zoom,
       l.top_left[2] * Scale - (y1_screen * Scale) \div zoom
           - l.intersection_height * idx * Scale
           - padding * idx * Scale >>

\* The point handed to g.fork for row idx, in 1/Scale of a map unit
RowForkPoint(l, y1_screen, idx) ==
    << l.top_left[1] * Scale - (l.x1_screen * Scale) \div zoom,
       l.top_left[2] * Scale - (y1_screen * Scale) \div zoom
           - l.intersection_height * idx * Scale
           - padding * (idx + 1) * Scale >>

----------------------------------------------------------------------------
\* Inputs of the calls

CamZooms == {MIN_ZOOM_FOR_MARKINGS - 1, MIN_ZOOM_FOR_MARKINGS, MIN_ZOOM_FOR_MARKINGS + 1}

WindowWidths == {1024}

ScreenYs == {0, 25}

TimeLefts == {<<>>, Some(0 - 20), Some(0 - 1), Some(0), Some(4)}

ColorOverrides == {<<>>, Some("override")}

Suppressions == {<<>>, Some(ThisI), Some(OtherI)}

\* Every cycle over the turns of the map: any two disjoint sets of turns
AnyCycles(m) ==
    { c \in [parent : {m.id}, duration : {10},
             priority_turns : SUBSET TurnIds(m.turns),
             yield_turns : SUBSET TurnIds(m.turns)] :
        c.priority_turns \cap c.yield_turns = {} }

----------------------------------------------------------------------------
NoCall == [fn |-> "none"]

NoLocal == [labels |-> <<>>]

FreshG == [ctx |-> NoFrame, drawn |-> <<>>]

Init ==
    /\ map \in {m \in Maps : WellFormed(m)}
    /\ draw_map = <<>>
    /\ g = FreshG
    /\ pc = "idle"
    /\ call = NoCall
    /\ local = NoLocal
    /\ pushes = <<>>
    /\ pops = 0
    /\ calls = <<>>

\* DrawMap construction: one DrawIntersection per intersection of the map
New ==
    /\ pc = "idle"
    /\ draw_map = <<>>
    /\ draw_map' = <<DrawIntersection_new(map, map)>>
    /\ UNCHANGED <<map, g, pc, call, local, pushes, pops, calls>>

\* A redraw of the intersection: DrawIntersection::draw, entered on a fresh surface
Draw(opts, cam_zoom, suppress, in_overtime, cur) ==
    /\ pc = "idle"
    /\ draw_map # <<>>
    /\ LET self == get_i(draw_map, map.id)
           g0 == [ctx |-> CanvasFrame(cam_zoom), drawn |-> <<>>]
           r == DrawIntersection_draw(self, g0, opts, map, draw_map, cam_zoom,
                                      suppress, in_overtime, cur)
       IN  /\ g' = r.g
           /\ calls' = r.calls
           /\ pc' = IF r.panicked THEN "panicked" ELSE "done"
    /\ call' = [fn |-> "draw", opts |-> opts, cam_zoom |-> cam_zoom,
                suppress |-> suppress, in_overtime |-> in_overtime, cur |-> cur]
    /\ UNCHANGED <<map, draw_map, local, pushes, pops>>

\* draw_signal_cycle called by itself on a fresh surface
DrawSignalCycle(cycle) ==
    /\ pc = "idle"
    /\ draw_map # <<>>
    /\ g' = draw_signal_cycle(cycle,
                              [ctx |-> CanvasFrame(MIN_ZOOM_FOR_MARKINGS), drawn |-> <<>>],
                              map, draw_map)
    /\ calls' = <<cycle>>
    /\ pc' = "done"
    /\ call' = [fn |-> "draw_signal_cycle", cycle |-> cycle]
    /\ UNCHANGED <<map, draw_map, local, pushes, pops>>

\* draw_signal_diagram, lines 171-188: the bounds, then the label loop starts
DiagramEnter(current_cycle, time_left, y1_screen, window_width) ==
    /\ pc = "idle"
    /\ draw_map # <<>>
    /\ map.intersection_type = "TrafficSignal"
    /\ LET b == BoundsOf(map.polygon)
       IN  local' = [top_left |-> b.top_left,
                     intersection_width |-> b.intersection_width,
                     intersection_height |-> b.intersection_height,
                     labels |-> <<>>, idx |-> 0, label_length |-> 0,
                     total_screen_width |-> 0, x1_screen |-> 0,
                     old_ctx |-> NoFrame]
    /\ g' = [ctx |-> CanvasFrame(MIN_ZOOM_FOR_MARKINGS), drawn |-> <<>>]
    /\ call' = [fn |-> "draw_signal_diagram", i |-> map.id,
                current_cycle |-> current_cycle, time_left |-> time_left,
                y1_screen |-> y1_screen, window_width |-> window_width,
                entry_ctx |-> CanvasFrame(MIN_ZOOM_FOR_MARKINGS)]
    /\ pc' = "labels"
    /\ UNCHANGED <<map, draw_map, pushes, pops, calls>>

\* One turn of the label loop, lines 189-215
DiagramLabel ==
    /\ pc = "labels"
    /\ local.idx < Len(map.cycles)
    /\ local' = [local EXCEPT
                    !.labels = Append(@, LabelFor(local.idx, map.cycles[local.idx + 1],
                                                  call.current_cycle, call.time_left)),
                    !.idx = @ + 1]
    /\ UNCHANGED <<map, draw_map, g, pc, call, pushes, pops, calls>>

\* Lines 216-222 with at least one label
DiagramMeasure ==
    /\ pc = "labels"
    /\ local.idx = Len(map.cycles)
    /\ local.labels # <<>>
    /\ LET label_length == SeqMax([k \in 1..Len(local.labels) |-> text_width(local.labels[k])])
           total_screen_width == (local.intersection_width * zoom) + label_length + margin
       IN  local' = [local EXCEPT
                        !.label_length = label_length,
                        !.total_screen_width = total_screen_width,
                        !.x1_screen = call.window_width - total_screen_width]
    /\ pc' = "fork_screenspace"
    /\ UNCHANGED <<map, draw_map, g, call, pushes, pops, calls>>

\* Lines 216-220 without a label: max_by_key gives None and unwrap panics
DiagramPanic ==
    /\ pc = "labels"
    /\ local.idx = Len(map.cycles)
    /\ local.labels = <<>>
    /\ pc' = "panicked"
    /\ UNCHANGED <<map, draw_map, g, call, local, pushes, pops, calls>>

\* Line 224
DiagramForkScreenspace ==
    /\ pc = "fork_screenspace"
    /\ local' = [local EXCEPT !.old_ctx = g.ctx]
    /\ g' = fork_screenspace(g)
    /\ pushes' = Append(pushes, g'.ctx)
    /\ pc' = "panel"
    /\ UNCHANGED <<map, draw_map, call, pops, calls>>

\* Lines 225-247: the panel background, then the highlight of the current row
DiagramPanel ==
    /\ pc = "panel"
    /\ LET row == padding + local.intersection_height
           g1 == draw_rectangle(g, get_def("signal editor panel"),
                     local.x1_screen, call.y1_screen,
                     local.total_screen_width, row * Len(map.cycles) * zoom)
       IN  g' = draw_rectangle(g1, get_def("current cycle in signal editor panel"),
                     local.x1_screen, call.y1_screen + row * call.current_cycle * zoom,
                     local.total_screen_width, row * zoom)
    /\ local' = [local EXCEPT !.idx = 0]
    /\ pc' = "rows"
    /\ UNCHANGED <<map, draw_map, call, pushes, pops, calls>>

\* One turn of the row loop, lines 249-271
DiagramRow ==
    /\ pc = "rows"
    /\ local.idx < Min(Len(local.labels), Len(map.cycles))
    /\ LET idx == local.idx
           txt == local.labels[idx + 1]
           cycle == map.cycles[idx + 1]
           g1 == fork(g, RowForkPoint(local, call.y1_screen, idx), zoom)
           g2 == draw_signal_cycle(cycle, g1, map, draw_map)
       IN  /\ g' = draw_text_at_screenspace_topleft(g2, txt,
                       local.x1_screen + margin + (local.intersection_width * zoom),
                       call.y1_screen
                           + (padding + local.intersection_height) * idx * zoom)
           /\ pushes' = Append(pushes, g1.ctx)
           /\ calls' = Append(calls, cycle)
    /\ local' = [local EXCEPT !.idx = @ + 1]
    /\ UNCHANGED <<map, draw_map, pc, call, pops>>

\* Variant: the call returns without unfork
DiagramUnfork_Missing ==
    /\ pc = "rows"
    /\ local.idx = Min(Len(local.labels), Len(map.cycles))
    /\ pc' = "done"
    /\ UNCHANGED <<map, draw_map, g, call, local, pushes, pops, calls>>

\* Line 273
DiagramUnfork ==
    /\ pc = "rows"
    /\ local.idx = Min(Len(local.labels), Len(map.cycles))
    /\ g' = unfork(g, local.old_ctx)
    /\ pops' = pops + 1
    /\ pc' = "done"
    /\ UNCHANGED <<map, draw_map, call, local, pushes, calls>>

\* The frame is over: the next draw call starts on a fresh surface
EndFrame ==
    /\ pc = "done"
    /\ pc' = "idle"
    /\ g' = FreshG
    /\ call' = NoCall
    /\ local' = NoLocal
    /\ pushes' = <<>>
    /\ pops' = 0
    /\ calls' = <<>>
    /\ UNCHANGED <<map, draw_map>>

Next ==
    \/ New
    \/ \E color \in ColorOverrides, debug_mode \in BOOLEAN, cam_zoom \in CamZooms,
          suppress \in Suppressions, in_overtime \in BOOLEAN,
          cur \in 1..Max(1, Len(map.cycles)) :
            Draw([color |-> color, debug_mode |-> debug_mode], cam_zoom, suppress,
                 in_overtime, cur)
    \/ \E cycle \in AnyCycles(map) : DrawSignalCycle(cycle)
    \/ \E current_cycle \in 0..MaxCycles, time_left \in TimeLefts, y1_screen \in ScreenYs,
          window_width \in WindowWidths :
            DiagramEnter(current_cycle, time_left, y1_screen, window_width)
    \/ DiagramLabel
    \/ DiagramMeasure
    \/ DiagramPanic
    \/ DiagramForkScreenspace
    \/ DiagramPanel
    \/ DiagramRow
    \/ DiagramUnfork
    \/ EndFrame

Spec == Init /\ [][Next]_vars

----------------------------------------------------------------------------
\* What the properties below read off a state

InDiagram == call.fn = "draw_signal_diagram"

NumCycles == Len(map.cycles)

\* Screen y at which row idx (0-based) of the panel starts
RowOrigin(idx) == call.y1_screen + (padding + local.intersection_height) * idx * zoom

\* The draw calls of one kind, in the order they were made
Drawn(op) == LET is(c) == c.op = op IN SelectSeq(g.drawn, is)

Refs(cmds) == {cmds[k].ref : k \in 1..Len(cmds)}

\* The frame entered for row idx (pushes[1] is the screen-space frame)
RowFrame(idx) == pushes[idx + 2]

----------------------------------------------------------------------------
\* C9.  The center computed by DrawIntersection::new is the average of the
\* footprint's points with the closing point left out (p0 counted once), and
\* the intersection's own footprint is still the closed ring it was.
C9_CenterExcludesClosingVertex ==
    draw_map # <<>> =>
        LET d == draw_map[1]
            ring == map.polygon
            k == Len(ring) - 1
            sx == SeqSum([j \in 1..k |-> ring[j][1]])
            sy == SeqSum([j \in 1..k |-> ring[j][2]])
        IN  /\ d.center.x[1] * k = sx * d.center.x[2]
            /\ d.center.y[1] * k = sy * d.center.y[2]
            /\ d.center.x[2] > 0 /\ d.center.y[2] > 0
            /\ ring \in Polygons
            /\ ring[1] = ring[Len(ring)]
            /\ d.polygon = ring

\* C9 witness: a constructed intersection whose center differs from the
\* average of all listed points of its ring
C9_Witness ==
    /\ draw_map # <<>>
    /\ Len(map.polygon) = 5
    /\ LET d == draw_map[1]
           all == SeqSum(Xs(map.polygon))
       IN  d.center.x[1] * Len(map.polygon) # all * d.center.x[2]

----------------------------------------------------------------------------
\* The two turns of one crosswalk: A->B and B->A, both of type Crosswalk
CrosswalkPairs ==
    { pr \in TurnIds(map.turns) \X TurnIds(map.turns) :
        /\ pr[2] = <<pr[1][2], pr[1][1]>>
        /\ get_t(map, pr[1]).turn_type = "Crosswalk"
        /\ get_t(map, pr[2]).turn_type = "Crosswalk" }

----------------------------------------------------------------------------
AloneCycle == pc = "done" /\ call.fn = "draw_signal_cycle"

\* C5.  No turn between sidewalks is ever drawn as a path line, in any draw
\* call; and draw_signal_cycle draws exactly the other turns of
\* priority_turns solid in the protected color and exactly the other turns
\* of yield_turns dashed in the yield color.
C5_NoSidewalkTurnAsPath ==
    /\ \A k \in 1..Len(g.drawn) :
           g.drawn[k].op \in {"turn_full", "turn_dashed"} =>
               ~between_sidewalks(get_t(map, g.drawn[k].ref))
    /\ AloneCycle =>
           LET full == Drawn("turn_full")
               dashed == Drawn("turn_dashed")
               cycle == call.cycle
           IN  /\ Refs(full) = {t \in cycle.priority_turns :
                                    ~between_sidewalks(get_t(map, t))}
               /\ Refs(dashed) = {t \in cycle.yield_turns :
                                    ~between_sidewalks(get_t(map, t))}
               /\ Len(full) = Cardinality(Refs(full))
               /\ Len(dashed) = Cardinality(Refs(dashed))
               /\ \A k \in 1..Len(full) :
                      full[k].color = "turns protected by traffic signal right now"
               /\ \A k \in 1..Len(dashed) :
                      dashed[k].color =
                          "turns allowed with yielding by traffic signal right now"

\* C5 witness: a cycle whose priority set holds a crosswalk turn and a
\* vehicle turn and whose yield set holds a corner turn has been drawn
C5_Witness ==
    /\ AloneCycle
    /\ {<<1, 2>>, <<3, 4>>} \subseteq call.cycle.priority_turns
    /\ <<4, 5>> \in call.cycle.yield_turns
    /\ Len(Drawn("turn_full")) = 1

----------------------------------------------------------------------------
\* C6.  draw_signal_cycle draws a crosswalk artifact of the cycle's parent
\* intersection exactly when the cycle gives its turn id1 Priority status; a
\* crosswalk whose turn is not in the priority set is not drawn.
C6_CrosswalkIffPriority ==
    AloneCycle =>
        LET cycle == call.cycle
            cws == get_i(draw_map, cycle.parent).crosswalks
            shown == Drawn("crosswalk")
        IN  /\ \A k \in 1..Len(cws) :
                   /\ (cws[k].id1 \in Refs(shown))
                          <=> (get_priority(cycle, cws[k].id1) = "Priority")
                   /\ cws[k].id1 \notin cycle.priority_turns
                          => cws[k].id1 \notin Refs(shown)
            /\ Refs(shown) \subseteq {cws[k].id1 : k \in 1..Len(cws)}
            /\ Len(shown) = Cardinality(Refs(shown))

\* C6 witness: the crosswalk's turn has Priority and the crosswalk is drawn
C6_Witness ==
    /\ AloneCycle
    /\ Len(Drawn("crosswalk")) = 1
    /\ Drawn("crosswalk")[1].ref \in call.cycle.priority_turns

\* A crosswalk whose turn only yields is left out (reached, not drawn)
C6_YieldReached ==
    /\ AloneCycle
    /\ \E k \in 1..Len(draw_map[1].crosswalks) :
           draw_map[1].crosswalks[k].id1 \in call.cycle.yield_turns
    /\ Drawn("crosswalk") = <<>>

----------------------------------------------------------------------------
\* DrawIntersection::draw

InDraw == call.fn = "draw"

Markings == ~call.opts.debug_mode /\ call.cam_zoom >= MIN_ZOOM_FOR_MARKINGS

SignalControlled == draw_map[1].intersection_type = "TrafficSignal"

Suppressed == call.suppress = Some(draw_map[1].id)

\* Every corner artifact was drawn, in order, right after the footprint
CornersDrawn ==
    LET corners == draw_map[1].sidewalk_corners
    IN  /\ Len(g.drawn) >= 1 + Len(corners)
        /\ g.drawn[1].op = "footprint"
        /\ \A k \in 1..Len(corners) :
               /\ g.drawn[1 + k].op = "corner"
               /\ g.drawn[1 + k].ref = <<corners[k].l1, corners[k].l2>>
        /\ Len(Drawn("corner")) = Len(corners)

\* Every crosswalk artifact was drawn by draw itself, in order
AllCrosswalksDrawn ==
    LET cws == draw_map[1].crosswalks
        shown == Drawn("crosswalk")
    IN  /\ calls = <<>>
        /\ Len(shown) = Len(cws)
        /\ \A k \in 1..Len(cws) : shown[k].ref = cws[k].id1

NoDetail ==
    /\ calls = <<>>
    /\ Drawn("crosswalk") = <<>>
    /\ Drawn("turn_full") = <<>>
    /\ Drawn("turn_dashed") = <<>>

\* C8 as stated.  With debug mode off and the zoom at or above the
\* threshold, every corner is drawn and then exactly one of: the signal
\* detail is drawn through draw_signal_cycle, when the intersection is
\* signal-controlled and not suppressed; every crosswalk is drawn, in every
\* other case.  Otherwise none of corners, crosswalks, signal detail is drawn.
C8_Original ==
    (pc = "done" /\ InDraw) =>
        IF Markings
        THEN /\ CornersDrawn
             /\ IF SignalControlled /\ ~Suppressed
                THEN Len(calls) = 1
                ELSE AllCrosswalksDrawn
        ELSE NoDetail /\ Drawn("corner") = <<>>

\* C8 amended.  With debug mode off and the zoom at or above the threshold
\* every corner is drawn, and then: (a) draw_signal_cycle is called once, for
\* the current cycle, when the intersection is signal-controlled, not
\* suppressed and the signal is not in overtime (a signal with no cycle has no
\* current cycle and the draw aborts there); (b) every crosswalk is drawn when
\* the intersection is not signal-controlled; (c) nothing more is drawn when
\* it is signal-controlled and suppressed or in overtime.  In debug mode or
\* below the threshold none of corners, crosswalks, signal detail is drawn.
C8_Amended ==
    /\ (pc = "done" /\ InDraw) =>
           IF Markings
           THEN /\ CornersDrawn
                /\ IF SignalControlled
                   THEN IF ~Suppressed /\ ~call.in_overtime
                        THEN /\ map.cycles # <<>>
                             /\ calls = <<map.cycles[call.cur]>>
                        ELSE NoDetail
                   ELSE AllCrosswalksDrawn
           ELSE NoDetail /\ Drawn("corner") = <<>>
    /\ (pc = "panicked" /\ InDraw) =>
           /\ Markings /\ SignalControlled /\ ~Suppressed /\ ~call.in_overtime
           /\ map.cycles = <<>>
           /\ CornersDrawn
           /\ NoDetail

\* C8 witness: a signal-controlled intersection with a crosswalk, drawn with
\* markings while its detail is suppressed: corners only
C8_Witness ==
    /\ pc = "done" /\ InDraw /\ Markings
    /\ SignalControlled /\ Suppressed
    /\ draw_map[1].crosswalks # <<>>
    /\ Drawn("corner") # <<>>
    /\ Drawn("crosswalk") = <<>>

\* The delegation of case (a) is reached too
C8_DelegationReached ==
    /\ pc = "done" /\ InDraw /\ Markings
    /\ Len(calls) = 1
    /\ Drawn("turn_full") # <<>>

----------------------------------------------------------------------------
\* draw_signal_diagram

\* The three shapes of a label, written out
OvertimeLabel(idx) ==
    << [fmt |-> "Cycle {}: ", args |-> <<idx + 1>>, fg |-> None],
       [fmt |-> "OVERTIME", args |-> <<>>, fg |-> "signal overtime"] >>

ElapsedLabel(idx, duration, left) ==
    << [fmt |-> "Cycle {}: {:.01}s / {}",
        args |-> <<idx + 1, duration - left, duration>>, fg |-> None] >>

PlainLabel(idx, duration) ==
    << [fmt |-> "Cycle {}: {}", args |-> <<idx + 1, duration>>, fg |-> None] >>

\* C3.  The label of row idx is the OVERTIME form exactly when idx is the
\* current cycle and time_left is present and negative, whatever its size;
\* the elapsed form exactly when idx is the current cycle and time_left is
\* present and not negative; the plain form for every other row and whenever
\* time_left is absent.  The labels drawn are these, in row order.
C3_LabelForms ==
    InDiagram =>
        /\ \A k \in 1..Len(local.labels) :
               LET idx == k - 1
                   duration == map.cycles[k].duration
                   active == idx = call.current_cycle /\ call.time_left # <<>>
                   label == local.labels[k]
               IN  /\ (label = OvertimeLabel(idx))
                          <=> (active /\ call.time_left[1] < 0)
                   /\ (active /\ call.time_left[1] >= 0)
                          => label = ElapsedLabel(idx, duration, call.time_left[1])
                   /\ (label[1].fmt = "Cycle {}: {:.01}s / {}")
                          => (active /\ call.time_left[1] >= 0)
                   /\ ~active => label = PlainLabel(idx, duration)
        /\ pc = "done" =>
               LET texts == Drawn("text_screenspace")
               IN  /\ Len(texts) = Len(local.labels)
                   /\ \A k \in 1..Len(texts) : texts[k].txt = local.labels[k]

\* C3 witness: a finished diagram of two rows whose second row is the
\* current cycle, 20 s past its end
C3_Witness ==
    /\ InDiagram /\ pc = "done"
    /\ Len(local.labels) = 2
    /\ call.current_cycle = 1
    /\ call.time_left = Some(0 - 20)
    /\ local.labels[2] = OvertimeLabel(1)
    /\ local.labels[1] = PlainLabel(0, map.cycles[1].duration)

\* The elapsed form at time_left = 0 is reached as well
C3_ZeroLeftReached ==
    /\ InDiagram /\ pc = "done"
    /\ call.time_left = Some(0)
    /\ call.current_cycle = 0
    /\ local.labels[1] = ElapsedLabel(0, map.cycles[1].duration, 0)

----------------------------------------------------------------------------
DiagramOver == InDiagram /\ pc \in {"done", "panicked"}

\* C1 as stated.  In one call of draw_signal_diagram the number of frame
\* pushes equals the number of frame pops, and the frame in effect at the
\* end is the frame in effect at entry.
C1_Original ==
    DiagramOver => (Len(pushes) = pops /\ g.ctx = call.entry_ctx)

\* C1 amended.  A call with n >= 1 cycles pushes n + 1 frames
\* (fork_screenspace and one fork per row) and pops once: the single unfork
\* puts back the frame saved at fork_screenspace, so the frame in effect when
\* the call returns is the frame in effect at entry.  A call with no cycle
\* aborts before any push or pop, the frame untouched.
C1_Amended ==
    /\ (InDiagram /\ pc = "done") =>
           /\ NumCycles >= 1
           /\ Len(pushes) = NumCycles + 1
           /\ pops = 1
           /\ g.ctx = call.entry_ctx
           /\ local.old_ctx = call.entry_ctx
    /\ (InDiagram /\ pc = "panicked") =>
           /\ NumCycles = 0
           /\ pushes = <<>>
           /\ pops = 0
           /\ g.ctx = call.entry_ctx
    /\ (InDiagram /\ pc \in {"panel", "rows"}) => g.ctx # call.entry_ctx

\* C1 witness: a call over two cycles has returned, three frames pushed
C1_Witness ==
    /\ InDiagram /\ pc = "done"
    /\ NumCycles = 2
    /\ Len(pushes) = 3
    /\ pops = 1
    /\ pushes[3] # call.entry_ctx
    /\ g.ctx = call.entry_ctx

----------------------------------------------------------------------------
\* The panel background of the diagram: the first rectangle drawn
PanelDrawn(height) ==
    /\ Len(Drawn("rectangle")) >= 1
    /\ Drawn("rectangle")[1].color = "signal editor panel"
    /\ Drawn("rectangle")[1].rect[4] = height

\* C2 as stated.  With an empty cycle list draw_signal_diagram does not
\* fail: no row is drawn, an empty panel of height zero is drawn and the call
\* returns.
C2_EmptyCycleListIsNoError ==
    (DiagramOver /\ NumCycles = 0) =>
        /\ pc = "done"
        /\ PanelDrawn(0)
        /\ Drawn("text_screenspace") = <<>>
        /\ calls = <<>>

\* The highlight of the diagram: the second rectangle drawn
Highlight == Drawn("rectangle")[2]

\* C7 as stated.  For n cycles the call draws n label rows in cycle order,
\* a panel background of height (padding + intersection_height) * n * zoom,
\* and the highlight at row current_cycle with the height of one row; for
\* current_cycle < n the highlight lies inside the panel and is the cell in
\* which that cycle's label is drawn.
C7_DiagramLayout ==
    DiagramOver =>
        LET texts == Drawn("text_screenspace")
            n == NumCycles
            cc == call.current_cycle
        IN  /\ Len(texts) = n
            /\ \A k \in 1..Len(texts) :
                   /\ texts[k].txt[1].args[1] = k
                   /\ texts[k].txt[1].args[Len(texts[k].txt[1].args)]
                          = map.cycles[k].duration
                          \/ Len(texts[k].txt) = 2
                   /\ texts[k].rect[2] = RowOrigin(k - 1)
            /\ PanelDrawn((padding + local.intersection_height) * n * zoom)
            /\ Len(Drawn("rectangle")) = 2
            /\ Highlight.color = "current cycle in signal editor panel"
            /\ Highlight.rect[1] = local.x1_screen
            /\ Highlight.rect[2] = call.y1_screen
                   + (padding + local.intersection_height) * cc * zoom
            /\ Highlight.rect[3] = local.total_screen_width
            /\ Highlight.rect[4] = (padding + local.intersection_height) * zoom
            /\ cc < n =>
                   LET panel == Drawn("rectangle")[1].rect
                       label == texts[cc + 1].rect
                   IN  /\ Highlight.rect[2] >= panel[2]
                       /\ Highlight.rect[2] + Highlight.rect[4] <= panel[2] + panel[4]
                       /\ Highlight.rect[1] = panel[1]
                       /\ Highlight.rect[3] = panel[3]
                       /\ label[2] = Highlight.rect[2]
                       /\ label[1] >= Highlight.rect[1]
                       /\ label[1] + text_width(texts[cc + 1].txt)
                              <= Highlight.rect[1] + Highlight.rect[3]

\* The layout of C7 on every call that returns (at least one cycle)
C7_LayoutWhenReturned ==
    (InDiagram /\ pc = "done") => (NumCycles >= 1 /\ C7_DiagramLayout)

C7_ReturnedReached ==
    /\ InDiagram /\ pc = "done"
    /\ NumCycles = 2
    /\ map.cycles[1].duration = 10
    /\ map.cycles[2].duration = 15
    /\ call.current_cycle = 1

----------------------------------------------------------------------------
\* Where row idx shows the top-left and the bottom-left corner of the
\* intersection's bounding box
MiniatureTop(idx) == MapToScreen(RowFrame(idx), local.top_left)

MiniatureBottom(idx) ==
    MapToScreen(RowFrame(idx),
                <<local.top_left[1], local.top_left[2] + local.intersection_height>>)

\* C10 as stated.  The frame of row idx shows the top-left corner of the
\* bounding box at the row's origin (x1_screen, y1_screen + (padding +
\* intersection_height) * idx * zoom), the origin of the highlight and of the
\* label; the miniature stays inside the row's cell.
C10_Original ==
    (InDiagram /\ pc = "done") =>
        \A idx \in 0..(NumCycles - 1) :
            /\ RowFrame(idx).zoom = zoom
            /\ MiniatureTop(idx) = <<local.x1_screen, RowOrigin(idx)>>
            /\ MiniatureBottom(idx)[2] <= RowOrigin(idx + 1)

\* C10 amended.  The frame of row idx has scale zoom and shows the top-left
\* corner of the bounding box at (x1_screen, row origin + padding * zoom):
\* padding * zoom below the origin used for the highlight and the label.  The
\* miniature, intersection_height * zoom high, ends exactly where the next
\* row starts, so it stays inside the row's cell and never overlaps the next.
C10_Amended ==
    (InDiagram /\ pc = "done") =>
        \A idx \in 0..(NumCycles - 1) :
            /\ RowFrame(idx).zoom = zoom
            /\ MiniatureTop(idx) = <<local.x1_screen, RowOrigin(idx) + padding * zoom>>
            /\ MiniatureBottom(idx)[2] - MiniatureTop(idx)[2]
                   = local.intersection_height * zoom
            /\ MiniatureTop(idx)[2] >= RowOrigin(idx)
            /\ MiniatureBottom(idx)[2] = RowOrigin(idx + 1)
            /\ Drawn("text_screenspace")[idx + 1].rect[2] = RowOrigin(idx)

\* C10 witness: the second row of a returned call, the panel not at the top
\* of the screen
C10_Witness ==
    /\ InDiagram /\ pc = "done"
    /\ NumCycles = 2
    /\ call.y1_screen = 25
    /\ MiniatureTop(1)[2] = RowOrigin(1) + padding * zoom
    /\ MiniatureTop(1)[1] = local.x1_screen
====
